---- MODULE Spec2Model ----
(***************************************************************************)
(* mailstat (src/src/main.rs): incremental mailbox synchronisation into a  *)
(* JSON cache file, followed by per-day / per-domain reporting.            *)
(*                                                                         *)
(* One process run is main(): load the cache, page through the mailbox,    *)
(* save the cache, report.  The cache file and the mailbox outlive a run,  *)
(* so SpecRerun follows a run by a second one over the same file and the   *)
(* same mailbox.                                                           *)
(*                                                                         *)
(* Time is a small integer line of instants.  A DateTime is a pair         *)
(* (instant, offset); chrono compares DateTimes by instant alone and       *)
(* derives the calendar date from instant + offset.  The offset of Local   *)
(* is the one its zone has at that instant, so the dates of one run may    *)
(* carry different offsets.                                                *)
(***************************************************************************)
EXTENDS Integers, Sequences, FiniteSets, TLC

(* ------------------------------ bounds -------------------------------- *)
MaxMail == 2         \* envelopes in the mailbox, over all its pages
MaxInit == 1         \* records in the cache file found by the first run
DayLen == 2          \* instants per calendar day

(* --------------------------- program constants ------------------------ *)
\* static CLEARLY_ERRONEOUS_DATE = 1980-01-01T00:00:00+00:00
CLEARLY_ERRONEOUS_DATE == 1

\* the first wall-clock reading of the year 10000: to_rfc3339 writes such a
\* year with a sign and five digits, which parse_from_rfc3339 rejects
YEAR_10000 == 4

(* ------------------------------ input sets ---------------------------- *)
Instants == 0..3
\* A zone of the machine (the TZ of a process): offset std before the
\* instant `switch`, offset dst from it on.
UTC == [std |-> 0, dst |-> 0, switch |-> 0]
Summer == [std |-> 0, dst |-> 1, switch |-> 2]

\* the Local zones a process may run in
TimeZones == {UTC, Summer}
MessageIds == {"m1", "m2"}

\* Envelope.from.addr of the message with a given message_id
SenderOf(m, t) ==
    IF m = "m1" THEN "ann@x.org"
    ELSE IF t = 3 THEN "nobody" ELSE "bob@y.org"

\* What himalaya's list_envelopes yields, before the Local conversion of the
\* date: the fields Entry::from copies, the date as an instant.
Envelope(m, t) ==
    [id |-> m, message_id |-> m, from_addr |-> SenderOf(m, t), subject |-> "s",
     date |-> t]

\* The envelopes a mailbox may hold: "m1" at every instant, "m2" at the
\* instants after the erroneous date.
Envelopes ==
    { Envelope(m, t) : m \in {"m1"}, t \in Instants }
      \cup { Envelope(m, t) : m \in {"m2"}, t \in {2, 3} }

RECURSIVE SeqsUpTo(_, _)
SeqsUpTo(S, n) ==
    IF n = 0 THEN { <<>> }
    ELSE LET shorter == SeqsUpTo(S, n - 1)
         IN  shorter \cup { Append(s, x) : s \in { q \in shorter : Len(q) = n - 1 }, x \in S }

\* the pages list_envelopes may return (the empty page ends the mailbox)
Pages == SeqsUpTo(Envelopes, MaxMail)

(* ------------------------------ dates --------------------------------- *)
\* the offset Local has at an instant
offset_from_utc(tz, instant) == IF instant < tz.switch THEN tz.std ELSE tz.dst

\* DateTime<Local>: the instant with the Local offset in force at it
\* (chrono's with_timezone keeps the instant and takes the offset of the
\* target zone)
with_timezone(instant, tz) == [instant |-> instant, off |-> offset_from_utc(tz, instant)]

\* DateTime::to_rfc3339: local wall-clock reading followed by the offset.
\* A string is modelled by what a reader finds in it: whether it has the
\* shape of a timestamp, the wall-clock reading and the offset.
to_rfc3339(date) == [ok |-> TRUE, wall |-> date.instant + date.off, off |-> date.off]

\* a date string that is not RFC 3339
BadDateString == [ok |-> FALSE, wall |-> 0, off |-> 0]

\* DateTime::parse_from_rfc3339: DateTime<FixedOffset>, or an error for a
\* string without the shape of a timestamp or with a year of five digits
parse_from_rfc3339(s) ==
    IF ~s.ok \/ s.wall >= YEAR_10000
    THEN [res |-> "Err", instant |-> 0, off |-> 0]
    ELSE [res |-> "Ok", instant |-> s.wall - s.off, off |-> s.off]

\* serialize_date
serialize_date(date) == to_rfc3339(date)

\* deserialize_date: parse (.unwrap() panics on an error), then
\* dt.with_timezone(&Local)
deserialize_date(s, tz) ==
    IF parse_from_rfc3339(s).res = "Err"
    THEN [res |-> "Panic", date |-> with_timezone(0, UTC)]
    ELSE [res |-> "Ok", date |-> with_timezone(parse_from_rfc3339(s).instant, tz)]

(* ------------------------------ Entry --------------------------------- *)
\* impl From<&Envelope> for Entry; envelope.date is already a DateTime<Local>
EntryFrom(envelope, tz) ==
    [id |-> envelope.id, message_id |-> envelope.message_id,
     from_addr |-> envelope.from_addr, subject |-> envelope.subject,
     date |-> with_timezone(envelope.date, tz)]

\* #[derive(Serialize)] for Entry: one JSON object, the date as a string
SerializeEntry(e) ==
    [id |-> e.id, message_id |-> e.message_id, from_addr |-> e.from_addr,
     subject |-> e.subject, date |-> serialize_date(e.date)]

\* #[derive(Deserialize)] for Entry (of a record whose date string parses)
DeserializeEntry(r, tz) ==
    [id |-> r.id, message_id |-> r.message_id, from_addr |-> r.from_addr,
     subject |-> r.subject, date |-> deserialize_date(r.date, tz).date]

(* ---------------------------- cache file ------------------------------ *)
\* The file at the --cache path: absent, a JSON array of records, bytes that
\* are not JSON ("garbage"), zero bytes ("empty"), or an array cut off
\* behind some complete records ("partial").  recs are the records a reader
\* meets before the end of the array or the place where the JSON breaks.
Absent == [kind |-> "absent", recs |-> <<>>]
Garbage == [kind |-> "garbage", recs |-> <<>>]
EmptyFile == [kind |-> "empty", recs |-> <<>>]
PartialFile(recs) == [kind |-> "partial", recs |-> recs]
JsonFile(recs) == [kind |-> "json", recs |-> recs]

\* serde_json::to_string(entries)
to_string(es) == JsonFile([k \in 1..Len(es) |-> SerializeEntry(es[k])])

\* load_from_cache: File::open fails on an absent file; serde_json reads
\* the array record by record, so deserialize_date panics on the first
\* record whose date string does not parse, also in a file that is not JSON
\* further on; where the JSON breaks serde_json returns an error.
load_from_cache(file, tz) ==
    IF file.kind = "absent" THEN [res |-> "Err", entries |-> <<>>]
    ELSE IF \E k \in 1..Len(file.recs) : deserialize_date(file.recs[k].date, tz).res = "Panic"
         THEN [res |-> "Panic", entries |-> <<>>]
         ELSE IF file.kind # "json" THEN [res |-> "Err", entries |-> <<>>]
         ELSE [res |-> "Ok",
               entries |-> [k \in 1..Len(file.recs) |-> DeserializeEntry(file.recs[k], tz)]]

\* a record whose date string is no RFC 3339 timestamp
BadRecord == [SerializeEntry(EntryFrom(Envelope("m2", 2), UTC)) EXCEPT !.date = BadDateString]

\* Records a cache file may hold before the first run: written by an
\* earlier run in zone UTC ("m1") or zone Summer ("m2"), or with a date string
\* that is no RFC 3339 timestamp.
StoredRecords ==
    { SerializeEntry(EntryFrom(Envelope("m1", t), UTC)) : t \in {0, 1, 3} }
      \cup { SerializeEntry(EntryFrom(Envelope("m2", 2), Summer)) }
      \cup { BadRecord }

\* the prefixes of the text of a snapshot that end behind a complete record
CutOff(recs) == { PartialFile(SubSeq(recs, 1, k)) : k \in 0..Len(recs) }

InitialFiles ==
    {Absent, Garbage, PartialFile(<<BadRecord>>)}
      \cup { JsonFile(recs) : recs \in SeqsUpTo(StoredRecords, MaxInit) }

(* ------------------------------ helpers ------------------------------- *)
\* faulty variant: the known set is not seeded from the loaded entries
MessageIdsOf_Empty(es) == {}

\* entries.iter().map(|e| e.message_id.clone()).collect::<HashSet<_>>()
MessageIdsOf(es) == { es[k].message_id : k \in 1..Len(es) }

\* EmailAddress::parse(addr, None): the domain of a well-formed address,
\* None for anything else
EmailAddressParse(addr) ==
    IF addr = "ann@x.org" THEN [some |-> TRUE, domain |-> "x.org"]
    ELSE IF addr = "bob@y.org" THEN [some |-> TRUE, domain |-> "y.org"]
    ELSE [some |-> FALSE, domain |-> ""]

\* NaiveDate::from_ymd_opt(date.year(), date.month(), date.day()): the
\* calendar day of the local wall-clock reading
NaiveDateOf(date) == (date.instant + date.off) \div DayLen

\* count_by_date: per calendar day, the number of entries not before the
\* erroneous date; a day without entries has no row
count_by_date(es) ==
    LET kept == { k \in 1..Len(es) : ~(es[k].date.instant < CLEARLY_ERRONEOUS_DATE) }
        days == { NaiveDateOf(es[k].date) : k \in kept }
    IN  [d \in days |-> Cardinality({ k \in kept : NaiveDateOf(es[k].date) = d })]

\* count_by_domain: per sender domain, the number of entries; .unwrap()
\* panics on the first address that does not parse
count_by_domain(es) ==
    IF \E k \in 1..Len(es) : ~EmailAddressParse(es[k].from_addr).some
    THEN [res |-> "Panic", counts |-> <<>>]
    ELSE LET doms == { EmailAddressParse(es[k].from_addr).domain : k \in 1..Len(es) }
         IN  [res |-> "Ok",
              counts |-> [d \in doms |->
                  Cardinality({ k \in 1..Len(es) :
                                  EmailAddressParse(es[k].from_addr).domain = d })]]

\* counts.into_iter(): a HashMap hands out its pairs in an order of its own,
\* any order of the domains
IterationOrders(counts) ==
    LET n == Cardinality(DOMAIN counts)
    IN  { o \in [1..n -> DOMAIN counts] : \A a, b \in 1..n : a # b => o[a] # o[b] }

\* one step of the stable sort: x goes behind the rows whose count is not
\* larger than its own
RECURSIVE InsertByCount(_, _)
InsertByCount(sorted, x) ==
    IF sorted = <<>> THEN <<x>>
    ELSE IF Head(sorted).count <= x.count
         THEN <<Head(sorted)>> \o InsertByCount(Tail(sorted), x)
         ELSE <<x>> \o sorted

\* counts.sort_by_key(|(_, c)| *c): stable, ascending by count
RECURSIVE sort_by_key(_)
sort_by_key(rows) ==
    IF rows = <<>> THEN <<>>
    ELSE InsertByCount(sort_by_key(SubSeq(rows, 1, Len(rows) - 1)), rows[Len(rows)])

\* counts.reverse()
reverse(rows) == [k \in 1..Len(rows) |-> rows[Len(rows) + 1 - k]]

\* table_counts_by_domain, lines 211-218: the rows of the table, for the
\* order in which the map handed out its pairs
table_counts_by_domain(counts, order) ==
    reverse(sort_by_key([k \in 1..Len(order) |->
                            [domain |-> order[k], count |-> counts[order[k]]]]))

\* entries.iter().filter(|e| e.date > until)
Window(es, u) == SelectSeq(es, LAMBDA e : e.date.instant > u)

(* ------------------------------- state -------------------------------- *)
VARIABLES
    pc,             \* where main() is
    run,            \* number of the current run
    cache,          \* args.cache is Some(path)
    disk,           \* the file at the cache path
    mailbox,        \* the pages of INBOX revealed so far, page 0 first
    tz,             \* offset of Local in this run's environment
    until,          \* the cutoff instant of this run
    entries,        \* Vec<Entry>
    message_ids,    \* HashSet<String>
    message_count,  \* message_ids.len() after loading
    i,              \* page cursor
    page,           \* the page being iterated
    j,              \* position of the for loop in page (1-based)
    report,         \* what the reporting phase has produced
    loaded,         \* history: entries as they were after loading
    before,         \* history: the cache file as this run found it
    requested,      \* history: list_envelopes calls made by this run
    seen,           \* history: the envelopes the for loop has taken up
    stop,           \* history: how the loop of this run ended
    saved,          \* history: save_to_cache of this run has returned Ok
    prev            \* history: the previous run's cutoff and, if it saved,
                    \* its zone and the snapshot it saved

vars == <<pc, run, cache, disk, mailbox, tz, until, entries, message_ids,
          message_count, i, page, j, report, loaded, before, requested, seen,
          stop, saved, prev>>

NoReport == [by_date |-> <<>>, by_domain |-> <<>>, table |-> <<>>, chart |-> <<>>,
             printed |-> FALSE, tabled |-> FALSE, charted |-> FALSE]
NoPrev == [saved |-> FALSE, entries |-> <<>>, until |-> 0, tz |-> UTC]

Init ==
    /\ pc = "start"
    /\ run = 1
    /\ cache \in BOOLEAN
    /\ disk \in (IF cache THEN InitialFiles ELSE {Absent})
    /\ mailbox = <<>>
    /\ tz = UTC
    /\ until = 0
    /\ entries = <<>>
    /\ message_ids = {}
    /\ message_count = 0
    /\ i = 0
    /\ page = <<>>
    /\ j = 0
    /\ report = NoReport
    /\ loaded = <<>>
    /\ before = disk
    /\ requested = 0
    /\ seen = <<>>
    /\ stop = "none"
    /\ saved = FALSE
    /\ prev = NoPrev

(* ------------------------------ actions ------------------------------- *)
\* checked_sub_days(..) is None: --days reaches before the first date
\* chrono can represent
NoCutoff == 0 - 1

\* The cutoffs Local::now().checked_sub_days(args.days) may give a run: any
\* instant (the clock and --days are the environment's, in every run), or
\* none.
Cutoffs == Instants \cup {NoCutoff}

\* main, lines 78-91: the cutoff, the cache load, the known set, the cursor.
\* The environment supplies the clock and --days (hence the cutoff) and the
\* Local zone.  The unwrap of line 79 panics when there is no cutoff (as
\* does the one of line 78, before it, when the backend cannot be built),
\* the one inside deserialize_date when a stored date does not parse.
Load ==
    /\ pc = "start"
    /\ \E u \in Cutoffs, z \in TimeZones :
         LET r == IF cache THEN load_from_cache(disk, z)
                  ELSE [res |-> "Ok", entries |-> <<>>]
         IN  /\ until' = u
             /\ IF u = NoCutoff
                THEN /\ pc' = "aborted"
                     /\ UNCHANGED <<tz, entries, message_ids, message_count, loaded>>
                ELSE /\ tz' = z
                     /\ IF r.res = "Panic"
                        THEN /\ pc' = "aborted"
                             /\ UNCHANGED <<entries, message_ids, message_count, loaded>>
                        ELSE /\ pc' = "fetch"
                             /\ entries' = r.entries
                             /\ message_ids' = MessageIdsOf(r.entries)
                             /\ message_count' = Cardinality(MessageIdsOf(r.entries))
                             /\ loaded' = r.entries
    /\ i' = 0
    /\ UNCHANGED <<run, cache, disk, mailbox, page, j, report, before, requested,
                   seen, stop, saved, prev>>

RECURSIVE MailCount(_)
MailCount(pages) ==
    IF pages = <<>> THEN 0 ELSE Len(Head(pages)) + MailCount(Tail(pages))

\* backend.list_envelopes("INBOX", 100, i): page i of a stable mailbox.  A
\* page not asked for before is revealed now; a mailbox that has shown
\* MaxMail envelopes has no more.
list_envelopes(p) ==
    IF i < Len(mailbox) THEN p = mailbox[i + 1]
    ELSE MailCount(mailbox) + Len(p) <= MaxMail

\* main, lines 95-102: request page i; an empty page ends the loop
Fetch ==
    /\ pc = "fetch"
    /\ \E p \in Pages :
         /\ list_envelopes(p)
         /\ mailbox' = IF i < Len(mailbox) THEN mailbox ELSE Append(mailbox, p)
         /\ page' = p
         /\ IF p = <<>>
            THEN pc' = "save" /\ stop' = "exhausted" /\ j' = 0
            ELSE pc' = "scan" /\ stop' = stop /\ j' = 1
    /\ requested' = requested + 1
    /\ UNCHANGED <<run, cache, disk, tz, until, entries, message_ids, message_count,
                   i, report, loaded, before, seen, saved, prev>>

\* faulty variant: a failed request is taken for the end of the mailbox
FetchFails_Swallowed ==
    /\ pc = "fetch"
    /\ pc' = "save"
    /\ requested' = requested + 1
    /\ UNCHANGED <<run, cache, disk, mailbox, tz, until, entries, message_ids,
                   message_count, i, page, j, report, loaded, before, seen, stop,
                   saved, prev>>

\* main, line 99: list_envelopes(..).unwrap() on a transport error
FetchFails ==
    /\ pc = "fetch"
    /\ pc' = "aborted"
    /\ requested' = requested + 1
    /\ UNCHANGED <<run, cache, disk, mailbox, tz, until, entries, message_ids,
                   message_count, i, page, j, report, loaded, before, seen, stop,
                   saved, prev>>

\* faulty variant: the cursor is not advanced after a page
Advance_NoIncrement ==
    IF j < Len(page)
    THEN pc' = "scan" /\ j' = j + 1 /\ i' = i
    ELSE pc' = "fetch" /\ j' = 0 /\ i' = i

\* the for loop moves to the next envelope, or past the page: i += 1
Advance ==
    IF j < Len(page)
    THEN pc' = "scan" /\ j' = j + 1 /\ i' = i
    ELSE pc' = "fetch" /\ j' = 0 /\ i' = i + 1

\* envelope.date < *CLEARLY_ERRONEOUS_DATE
IsErroneous(date) == date.instant < CLEARLY_ERRONEOUS_DATE

\* faulty variant: the comparison with the cutoff is reversed
IsBeforeCutoff_Reversed(date, u) == date.instant > u

\* envelope.date < until
IsBeforeCutoff(date, u) == date.instant < u

\* faulty variant: `break` in place of `break 'outer`: only the for loop is left
BreakInner ==
    pc' = "fetch" /\ j' = 0 /\ i' = i + 1 /\ stop' = stop

\* break 'outer: the loop over the pages is left, the cursor stays
BreakOuter ==
    pc' = "save" /\ stop' = "cutoff" /\ UNCHANGED <<i, j>>

\* faulty variant: the membership test never finds the id
IsKnown_Never(ids, m) == FALSE

\* message_ids.contains(&envelope.message_id)
IsKnown(ids, m) == m \in ids

\* faulty variant: the new entry is put in front of the others
push_Front(es, e) == <<e>> \o es

\* entries.push(envelope.into())
push(es, e) == Append(es, e)

\* faulty variant: the id of a pushed entry is not recorded
insert_Nothing(ids, m) == ids

\* message_ids.insert(envelope.message_id.clone())
insert(ids, m) == ids \cup {m}

\* main, lines 103-116: one iteration of the for loop over the page
ProcessEnvelope ==
    /\ pc = "scan"
    /\ LET envelope == EntryFrom(page[j], tz)
       IN  IF IsErroneous(envelope.date)
           THEN /\ Advance
                /\ UNCHANGED <<entries, message_ids, stop>>
           ELSE IF IsBeforeCutoff(envelope.date, until)
           THEN /\ BreakOuter
                /\ UNCHANGED <<entries, message_ids>>
           ELSE IF ~IsKnown(message_ids, envelope.message_id)
           THEN /\ entries' = push(entries, envelope)
                /\ message_ids' = insert(message_ids, envelope.message_id)
                /\ Advance
                /\ stop' = stop
           ELSE /\ Advance
                /\ UNCHANGED <<entries, message_ids, stop>>
    /\ seen' = Append(seen, page[j])
    /\ UNCHANGED <<run, cache, disk, mailbox, tz, until, message_count, page, report,
                   loaded, before, requested, saved, prev>>

Rest == <<run, cache, mailbox, tz, until, entries, message_ids, message_count, i,
          page, j, report, loaded, before, requested, seen, stop, prev>>

\* main, line 123: no --cache, nothing is saved
NoCache ==
    /\ pc = "save"
    /\ ~cache
    /\ pc' = "report"
    /\ UNCHANGED <<disk, saved>>
    /\ UNCHANGED Rest

\* save_to_cache, line 261: File::create truncates the file (or creates it)
FileCreate ==
    /\ pc = "save"
    /\ cache
    /\ disk' = EmptyFile
    /\ pc' = "write"
    /\ UNCHANGED saved
    /\ UNCHANGED Rest

\* faulty variant: the error of save_to_cache is dropped and main goes on
FileCreateFails_Ignored ==
    /\ pc = "save"
    /\ cache
    /\ pc' = "report"
    /\ UNCHANGED <<disk, saved>>
    /\ UNCHANGED Rest

\* save_to_cache, line 261: File::create fails, `?` ends main with the error
FileCreateFails ==
    /\ pc = "save"
    /\ cache
    /\ pc' = "aborted"
    /\ UNCHANGED <<disk, saved>>
    /\ UNCHANGED Rest

\* save_to_cache, line 262: the whole JSON text is written
WriteAll ==
    /\ pc = "write"
    /\ disk' = to_string(entries)
    /\ saved' = TRUE
    /\ pc' = "report"
    /\ UNCHANGED Rest

\* save_to_cache, line 262: write_all fails after writing some or none of
\* the text, `?` ends main with the error
WriteAllFails ==
    /\ pc = "write"
    /\ disk' \in {EmptyFile} \cup CutOff(to_string(entries).recs)
    /\ pc' = "aborted"
    /\ UNCHANGED saved
    /\ UNCHANGED Rest

\* the process is killed between File::create and the return of write_all:
\* none, some or all of the text is in the file
Crash ==
    /\ pc = "write"
    /\ disk' \in {EmptyFile} \cup CutOff(to_string(entries).recs) \cup {to_string(entries)}
    /\ pc' = "killed"
    /\ UNCHANGED saved
    /\ UNCHANGED Rest

\* main, lines 127-129: day counts and domain table of the window, chart of
\* all entries.  count_by_domain panics on an unparseable address,
\* graph_counts_by_date on an empty list of day counts (line 180) and when
\* drawing fails (the unwraps of lines 184-195).  printed, tabled and
\* charted record which of the three calls returned.
Report ==
    /\ pc = "report"
    /\ LET window == Window(entries, until)
           by_date == count_by_date(window)
           by_domain == count_by_domain(window)
           chart == count_by_date(entries)
       IN  IF by_domain.res = "Panic"
           THEN /\ pc' = "aborted"
                /\ report' = [NoReport EXCEPT !.by_date = by_date, !.printed = TRUE]
           ELSE \E order \in IterationOrders(by_domain.counts) :
                LET table == table_counts_by_domain(by_domain.counts, order)
                IN  IF DOMAIN chart = {}
                    THEN /\ pc' = "aborted"
                         /\ report' = [NoReport EXCEPT !.by_date = by_date,
                                                       !.by_domain = by_domain.counts,
                                                       !.table = table,
                                                       !.printed = TRUE,
                                                       !.tabled = TRUE]
                    ELSE \E drawn \in BOOLEAN :
                         IF ~drawn
                         THEN /\ pc' = "aborted"
                              /\ report' = [NoReport EXCEPT !.by_date = by_date,
                                                            !.by_domain = by_domain.counts,
                                                            !.table = table,
                                                            !.printed = TRUE,
                                                            !.tabled = TRUE]
                         ELSE /\ \E send_report_to_email \in BOOLEAN :
                                   pc' = IF send_report_to_email THEN "send" ELSE "done"
                              /\ report' = [by_date |-> by_date,
                                            by_domain |-> by_domain.counts,
                                            table |-> table, chart |-> chart,
                                            printed |-> TRUE, tabled |-> TRUE,
                                            charted |-> TRUE]
    /\ UNCHANGED <<run, cache, disk, mailbox, tz, until, entries, message_ids,
                   message_count, i, page, j, loaded, before, requested, seen, stop,
                   saved, prev>>

\* main, lines 130-150: the report is mailed, or reading the chart file or
\* the SMTP exchange fails
Send ==
    /\ pc = "send"
    /\ pc' \in {"done", "aborted"}
    /\ UNCHANGED <<run, cache, disk, mailbox, tz, until, entries, message_ids,
                   message_count, i, page, j, report, loaded, before, requested,
                   seen, stop, saved, prev>>

\* The process has ended; main() is started a second time over the same
\* cache file and the same mailbox.
Rerun ==
    /\ pc \in {"done", "aborted", "killed"}
    /\ run = 1
    /\ run' = 2
    /\ pc' = "start"
    /\ prev' = [saved |-> saved, entries |-> IF saved THEN entries ELSE <<>>,
                 until |-> until, tz |-> IF saved THEN tz ELSE UTC]
    /\ entries' = <<>>
    /\ message_ids' = {}
    /\ message_count' = 0
    /\ i' = 0
    /\ page' = <<>>
    /\ j' = 0
    /\ report' = NoReport
    /\ loaded' = <<>>
    /\ before' = disk
    /\ requested' = 0
    /\ seen' = <<>>
    /\ stop' = "none"
    /\ saved' = FALSE
    /\ UNCHANGED <<cache, disk, mailbox, tz, until>>

Next ==
    \/ Load
    \/ Fetch
    \/ FetchFails
    \/ ProcessEnvelope
    \/ NoCache
    \/ FileCreate
    \/ FileCreateFails
    \/ WriteAll
    \/ WriteAllFails
    \/ Crash
    \/ Report
    \/ Send

Spec == Init /\ [][Next]_vars

\* two consecutive runs, the first over a small cache file
RerunFiles ==
    {Absent, JsonFile(<<SerializeEntry(EntryFrom(Envelope("m1", 3), UTC))>>)}

InitRerun == Init /\ disk \in RerunFiles

NextRerun ==
    \/ Next
    \/ Rerun

SpecRerun == InitRerun /\ [][NextRerun]_vars

\* One run of a process that keeps executing: main is sequential code, so
\* the load, each page request (which returns or fails) and each iteration
\* of the for loop are eventually carried out.
SpecLive ==
    /\ InitRerun
    /\ [][Next]_vars
    /\ WF_vars(Load)
    /\ WF_vars(Fetch)
    /\ WF_vars(ProcessEnvelope)

(* ------------------------- vocabulary of the claims ------------------- *)
\* the message_ids of a sequence of entries, envelopes or stored records
IdSet(s) == { s[k].message_id : k \in DOMAIN s }

HasNoDuplicates(s) ==
    \A a, b \in DOMAIN s : a # b => s[a].message_id # s[b].message_id

\* positions of the records this run has appended
AppendedAt == (Len(loaded) + 1)..Len(entries)

\* the loop of this run has ended
LoopEnded == stop \in {"exhausted", "cutoff"}

\* an envelope this run would keep: not before the erroneous date and not
\* before the cutoff
InWindow(v) == v.date >= CLEARLY_ERRONEOUS_DATE /\ v.date >= until

(* -------------------------------- C1 ---------------------------------- *)
\* C1: a run that starts from an empty snapshot or from a loaded snapshot
\* without a repeated message_id never holds two records with the same
\* message_id, whatever the pages repeat, and neither does the file it saves.
C1_SnapshotUnique ==
    HasNoDuplicates(loaded) =>
        /\ HasNoDuplicates(entries)
        /\ saved => (disk.kind = "json" /\ HasNoDuplicates(disk.recs))

\* a run has saved after taking up, in one page, two in-window envelopes
\* with the same message_id
C1_Witness ==
    /\ saved
    /\ Len(seen) = 2
    /\ requested = 2
    /\ seen[1].message_id = seen[2].message_id
    /\ InWindow(seen[1]) /\ InWindow(seen[2])
    /\ Len(entries) = Len(loaded) + 1

(* -------------------------------- C2 ---------------------------------- *)
\* C2: a second run that loads what the first run saved, over the same
\* mailbox pages and with the same cutoff, appends no record: its snapshot
\* has the message_ids of the first run's snapshot.
C2_RerunAppendsNothing ==
    (run = 2 /\ prev.saved /\ pc # "start" /\ until = prev.until) =>
        /\ Len(entries) = Len(loaded)
        /\ IdSet(entries) = IdSet(prev.entries)

\* the second run has ended its loop after the first run saved a snapshot
\* of two records
C2_Witness ==
    /\ run = 2
    /\ prev.saved
    /\ LoopEnded
    /\ Len(prev.entries) = 2
    /\ Len(seen) = 2
    /\ pc = "done"

(* -------------------------------- C3 ---------------------------------- *)
\* C3: no record whose timestamp is strictly before the cutoff of the run
\* is appended by that run, in whatever order the pages list timestamps.
C3_NoAppendBeforeCutoff ==
    \A k \in AppendedAt : ~(entries[k].date.instant < until)

\* the run appended a record and then stopped at an envelope before the
\* cutoff
C3_Witness ==
    /\ stop = "cutoff"
    /\ Len(entries) > Len(loaded)
    /\ seen[Len(seen)].date < until
(* -------------------------------- C4 ---------------------------------- *)
RECURSIVE SumOver(_, _)
SumOver(f, D) ==
    IF D = {} THEN 0
    ELSE LET d == CHOOSE x \in D : TRUE IN f[d] + SumOver(f, D \ {d})

\* the sum of the counts of an aggregate
Total(f) == SumOver(f, DOMAIN f)

\* positions of appended records dated at or before the erroneous date
SentinelAppendedAt ==
    { k \in AppendedAt : entries[k].date.instant <= CLEARLY_ERRONEOUS_DATE }

\* C4: a retrieved entry whose timestamp is at or before the erroneous date
\* is never appended to the snapshot or to the known set, and is not counted
\* in the day aggregate or the domain aggregate of the run.
C4_SentinelExclusion ==
    LET valid == { k \in DOMAIN seen : seen[k].date > CLEARLY_ERRONEOUS_DATE }
        countable == { k \in DOMAIN entries :
                         entries[k].date.instant > until /\ k \notin SentinelAppendedAt }
    IN  /\ SentinelAppendedAt = {}
        /\ message_ids \subseteq (IdSet(loaded) \cup { seen[k].message_id : k \in valid })
        /\ Total(report.by_date) <= Cardinality(countable)
        /\ Total(report.by_domain) <= Cardinality(countable)

(* -------------------------------- C5 ---------------------------------- *)
\* the for loop has taken up an envelope after the erroneous date and
\* strictly before the cutoff
MetCutoff ==
    \E k \in DOMAIN seen :
        seen[k].date > CLEARLY_ERRONEOUS_DATE /\ seen[k].date < until

\* C5: once the loop has met an entry after the erroneous date and strictly
\* before the cutoff, that entry is the last one taken up: the in-window
\* entries before it in its page are in the snapshot, no later entry of the
\* page is processed, the cursor stays on that page and no further page is
\* requested.
C5_CutoffStop ==
    MetCutoff =>
        /\ pc \notin {"fetch", "scan"}
        /\ stop = "cutoff"
        /\ i + 1 \in DOMAIN mailbox /\ page = mailbox[i + 1]
        /\ j \in DOMAIN page
        /\ page[j].date > CLEARLY_ERRONEOUS_DATE /\ page[j].date < until
        /\ \A k \in 1..(j - 1) : InWindow(page[k]) => page[k].message_id \in IdSet(entries)
        /\ Len(seen) = MailCount(SubSeq(mailbox, 1, i)) + j
        /\ seen[Len(seen)] = page[j]
        /\ requested = i + 1

\* the loop stopped at the second entry of a page, after appending the
\* entry before it
C5_Witness ==
    /\ MetCutoff
    /\ i = 0 /\ j = 2
    /\ InWindow(page[1])
    /\ Len(entries) > Len(loaded)
    /\ entries[Len(entries)].message_id = page[1].message_id
    /\ pc = "done"

\* the loop stopped at the first entry of a page that holds a later entry
C5_WitnessRemainder ==
    /\ MetCutoff
    /\ j = 1 /\ Len(page) = 2
    /\ InWindow(page[2])
    /\ page[2].message_id \notin IdSet(entries)
    /\ pc = "done"

(* -------------------------------- C6 ---------------------------------- *)
\* C6: when the loop has ended, the message_ids of the snapshot are those of
\* the loaded snapshot and of the entries taken up whose timestamp is after
\* the erroneous date and not before the cutoff, and the snapshot has grown
\* by the number of those ids that were not loaded.
C6_MergeComplete ==
    LoopEnded =>
        LET kept == { k \in DOMAIN seen :
                        seen[k].date > CLEARLY_ERRONEOUS_DATE /\ seen[k].date >= until }
            ids == { seen[k].message_id : k \in kept }
        IN  /\ IdSet(entries) = IdSet(loaded) \cup ids
            /\ Len(entries) - Len(loaded) = Cardinality(ids \ IdSet(loaded))

(* -------------------------------- C7 ---------------------------------- *)
\* C7: until the loop has ended in the exhausted or the cutoff-reached state
\* the run does not reach save and the cache file is what the run found; so
\* a run aborted by a failed page request leaves the file untouched.
C7_AbortKeepsFile ==
    ~LoopEnded => (disk = before /\ pc \in {"start", "fetch", "scan", "aborted"})

\* the request for the second page failed after the first page had added a
\* record to a snapshot loaded from the file
C7_Witness ==
    /\ pc = "aborted"
    /\ ~LoopEnded
    /\ requested = 2
    /\ cache /\ disk.kind = "json" /\ Len(loaded) = 1
    /\ Len(entries) = 2

(* -------------------------------- C8 ---------------------------------- *)
\* a cache file load_from_cache cannot read: absent, not JSON, or holding a
\* record whose date string is no RFC 3339 timestamp
Unreadable(file) ==
    \/ file.kind # "json"
    \/ \E k \in DOMAIN file.recs : parse_from_rfc3339(file.recs[k].date).res = "Err"

\* C8: when the cache file is absent or malformed in any way, the load (of
\* a run that got as far as loading) fails without ending the run: the run
\* goes on from an empty snapshot.
C8_LoadFailureNotFatal ==
    (cache /\ Unreadable(before) /\ pc # "start" /\ until # NoCutoff) =>
        /\ ~(pc = "aborted" /\ requested = 0)
        /\ loaded = <<>>

(* -------------------------------- C9 ---------------------------------- *)
\* C9: at every step of save the cache file is the complete previous
\* snapshot or the complete new one.
C9_AtomicSave ==
    cache => (disk = before \/ disk = to_string(entries))

(* -------------------------------- C10 --------------------------------- *)
\* C10: what a run loads from the file the previous run saved is the saved
\* snapshot, record by record and in order, each timestamp with the instant
\* and the offset it had when it was saved.
C10_RoundTrip ==
    (run = 2 /\ prev.saved /\ pc # "start" /\ until # NoCutoff) => loaded = prev.entries

(* -------------------------------- C11 --------------------------------- *)
\* C11: over a finite mailbox every request asks for the page after the
\* ones already read, so a run whose requests succeed leaves the loop, in
\* the exhausted or the cutoff-reached state (a run whose request fails
\* aborts); once the loop is left no page is requested.
C11_Termination ==
    /\ [](pc = "fetch" => requested = i)
    /\ [](pc = "scan" => requested = i + 1)
    /\ (pc = "fetch") ~> (LoopEnded \/ pc = "aborted")
    /\ [][LoopEnded => requested' = requested]_vars

\* the loop ended on the empty page that follows two pages of one envelope
C11_Witness ==
    /\ stop = "exhausted"
    /\ requested = 3
    /\ Len(seen) = 2
    /\ pc = "done"

(* -------------------------------- C12 --------------------------------- *)
\* the records of a collection dated after the erroneous date
ValidCount(es) ==
    Cardinality({ k \in DOMAIN es : es[k].date.instant > CLEARLY_ERRONEOUS_DATE })

\* C12: the day counts of a collection add up to the number of its records
\* whose timestamp is not at or before the erroneous date, for the window
\* that is printed and for the snapshot that is charted.
C12_DayTotals ==
    /\ report.printed => Total(report.by_date) = ValidCount(Window(entries, until))
    /\ report.charted => Total(report.chart) = ValidCount(entries)

(* -------------------------------- C13 --------------------------------- *)
\* the records of a collection whose sender address parses
ParseableCount(es) ==
    Cardinality({ k \in DOMAIN es : EmailAddressParse(es[k].from_addr).some })

\* C13: whatever addresses the window holds, the domain aggregate is
\* produced and its counts add up to the number of records whose address
\* parses.
C13_DomainTotals ==
    report.printed =>
        /\ report.tabled
        /\ Total(report.by_domain) = ParseableCount(Window(entries, until))

(* -------------------------------- C14 --------------------------------- *)
\* C14: the loaded snapshot stays an unchanged prefix of the working
\* snapshot, the records behind it are the entries this run kept, in the
\* order the loop met them, and the saved file is exactly that sequence.
C14_AppendOnly ==
    /\ Len(loaded) <= Len(entries)
    /\ SubSeq(entries, 1, Len(loaded)) = loaded
    /\ \E f \in [AppendedAt -> DOMAIN seen] :
          /\ \A a, b \in AppendedAt : a < b => f[a] < f[b]
          /\ \A a \in AppendedAt : entries[a] = EntryFrom(seen[f[a]], tz)
    /\ saved => disk = to_string(entries)

\* a run has saved a loaded record older than its cutoff followed by the
\* record it appended
C14_Witness ==
    /\ saved
    /\ Len(loaded) = 1
    /\ loaded[1].date.instant < until
    /\ Len(entries) = 2
    /\ entries[1] = loaded[1]
    /\ pc = "report"

(* -------------------------------- C15 --------------------------------- *)
\* C15: with a cache path configured, the merged snapshot is completely on
\* disk before the reporting phase starts, and stays there whatever the
\* reporting and mailing steps do.
C15_SaveBeforeReport ==
    (cache /\ (pc \in {"report", "send", "done"} \/ report.printed)) =>
        (saved /\ disk = to_string(entries))

\* mailing the report failed after a snapshot of two records was saved
C15_Witness ==
    /\ cache
    /\ pc = "aborted"
    /\ report.charted
    /\ Len(entries) = 2
    /\ disk = to_string(entries)

(* -------------------------------- C16 --------------------------------- *)
\* C16: an entry dated at or before the erroneous date is discarded and
\* does not end the loop.
C16_SentinelDoesNotStop ==
    \A k \in DOMAIN seen :
        seen[k].date <= CLEARLY_ERRONEOUS_DATE =>
            /\ ~(stop = "cutoff" /\ k = Len(seen))
            /\ SentinelAppendedAt = {}

(* -------------------------------- C17 --------------------------------- *)
\* the records dated at or after the cutoff
AtOrAfter(es, u) == SelectSeq(es, LAMBDA e : e.date.instant >= u)

\* C17: the day counts and the domain table of the run are those of the
\* snapshot records dated at or after the cutoff, which include every
\* record the run ingested; the chart is that of the whole snapshot.
C17_WindowMatchesIngestion ==
    report.printed =>
        /\ report.by_date = count_by_date(AtOrAfter(entries, until))
        /\ (report.tabled /\ count_by_domain(AtOrAfter(entries, until)).res = "Ok") =>
              report.by_domain = count_by_domain(AtOrAfter(entries, until)).counts
        /\ report.charted => report.chart = count_by_date(entries)

(* -------------------------------- C18 --------------------------------- *)
\* the place of a domain in the ascending order of domain names
DomainRank(d) == IF d = "x.org" THEN 1 ELSE 2

\* C18: the rows of the domain table are in descending order of count and,
\* for equal counts, in ascending order of domain.
C18_DomainOrder ==
    report.tabled =>
        \A a, b \in DOMAIN report.table :
            a < b =>
                \/ report.table[a].count > report.table[b].count
                \/ /\ report.table[a].count = report.table[b].count
                   /\ DomainRank(report.table[a].domain) < DomainRank(report.table[b].domain)

(* -------------------------------- C19 --------------------------------- *)
\* C19: after loading and after every entry the loop has processed, the
\* known set is the set of message_ids of the working snapshot.
C19_KnownSet ==
    message_ids = IdSet(entries)

\* the loop has added a second id to a snapshot loaded with one record and
\* is about to take up the next entry
C19_Witness ==
    /\ pc = "scan"
    /\ j = 2
    /\ Len(loaded) = 1
    /\ Len(entries) = 2
    /\ Cardinality(message_ids) = 2

(* -------------------------------- C20 --------------------------------- *)
\* C20: a run whose loop ends with an empty snapshot goes through the whole
\* reporting phase: day counts, domain table and chart.
C20_EmptyCompletes ==
    (entries = <<>> /\ report.printed) => (report.tabled /\ report.charted)
====
